---- MODULE Spec2Model ----
(***************************************************************************)
(* Model of the Assessment Creator back end:                               *)
(*   main/utilities.py  generate_prompt_assessment, get_result             *)
(*   main/routes.py     generate_assessment_endpoint                       *)
(*                                                                         *)
(* Python values are modelled as follows.  A str is a TLA+ string, except  *)
(* the card's level, which is a sequence of one-character strings so that  *)
(* str.lower() can act character by character.  A list is a sequence.  A   *)
(* dict is a function whose DOMAIN is the set of keys present.  The result *)
(* of dict.get is Some(v) or None.  The outcome of a call is Return(v) or  *)
(* Raise(type, message).                                                   *)
(***************************************************************************)
EXTENDS Integers, Sequences, FiniteSets, TLC

VARIABLES
    assessment_data,   \* argument of generate_prompt_assessment
    prompt_result,     \* its outcome, NotCalled before the call
    pc,                \* get_result: where each invocation stands
    prompt,            \* get_result: the argument of each invocation
    final_prompt,      \* get_result: local final_prompt
    request_body,      \* get_result: local request_body
    client,            \* get_result: the AsyncClient of each invocation, 0 before it is made
    clients,           \* every AsyncClient made so far: its owner and whether it is open
    posts,             \* the POSTs each invocation has issued, in order
    reply,             \* what the provider answered to each invocation
    pending,           \* the exception in flight inside the try block, if any
    result,            \* the outcome of each invocation
    request,           \* endpoint: the AssessmentRequest
    route_pc,          \* endpoint: where the handler stands
    call_argument,     \* endpoint: the dict passed to generate_assessment
    call_outcome,      \* endpoint: how generate_assessment ended
    http_response      \* endpoint: the response sent

prompt_vars == <<assessment_data, prompt_result>>
client_vars == <<pc, prompt, final_prompt, request_body, client, clients, posts,
                 reply, pending, result>>
route_vars == <<request, route_pc, call_argument, call_outcome, http_response>>
vars == <<prompt_vars, client_vars, route_vars>>

----------------------------------------------------------------------------
(* Bounds of the model *)

MaxKeywords == 2
MaxTools == 2
MaxQuestions == 2
NumInvocations == 2
MaxCards == 1

----------------------------------------------------------------------------
(* Python values *)

None == [some |-> FALSE]
Some(v) == [some |-> TRUE, v |-> v]

NotCalled == [kind |-> "not_called"]
Return(v) == [kind |-> "return", value |-> v]
Raise(type, message) == [kind |-> "raise", type |-> type, message |-> message]

\* dict.get(key, default)
Get(d, key, default) == IF key \in DOMAIN d THEN Some(d[key]) ELSE default

Restrict(d, keys) == [k \in keys |-> d[k]]

BoundedSeq(S, n) == UNION {[1..k -> S] : k \in 0..n}

\* sep.join(items)
RECURSIVE Join(_, _)
Join(items, sep) ==
    IF Len(items) = 0 THEN ""
    ELSE IF Len(items) = 1 THEN items[1]
    ELSE items[1] \o sep \o Join(Tail(items), sep)

\* str(n) for an int, as an f-string renders it
Digit(d) ==
    CASE d = 0 -> "0" [] d = 1 -> "1" [] d = 2 -> "2" [] d = 3 -> "3"
      [] d = 4 -> "4" [] d = 5 -> "5" [] d = 6 -> "6" [] d = 7 -> "7"
      [] d = 8 -> "8" [] d = 9 -> "9"

RECURSIVE NatToStr(_)
NatToStr(n) == IF n < 10 THEN Digit(n) ELSE NatToStr(n \div 10) \o Digit(n % 10)

IntToStr(n) == IF n < 0 THEN "-" \o NatToStr(0 - n) ELSE NatToStr(n)

\* one character of str.lower()
LowerChar(c) ==
    CASE c = "A" -> "a" [] c = "B" -> "b" [] c = "C" -> "c" [] c = "D" -> "d"
      [] c = "E" -> "e" [] c = "F" -> "f" [] c = "G" -> "g" [] c = "H" -> "h"
      [] c = "I" -> "i" [] c = "J" -> "j" [] c = "K" -> "k" [] c = "L" -> "l"
      [] c = "M" -> "m" [] c = "N" -> "n" [] c = "O" -> "o" [] c = "P" -> "p"
      [] c = "Q" -> "q" [] c = "R" -> "r" [] c = "S" -> "s" [] c = "T" -> "t"
      [] c = "U" -> "u" [] c = "V" -> "v" [] c = "W" -> "w" [] c = "X" -> "x"
      [] c = "Y" -> "y" [] c = "Z" -> "z" [] OTHER -> c

\* str.lower()
Lower(chars) == [i \in 1..Len(chars) |-> LowerChar(chars[i])]

\* the text of a sequence of characters
RECURSIVE Text(_)
Text(chars) == IF Len(chars) = 0 THEN "" ELSE Head(chars) \o Text(Tail(chars))

----------------------------------------------------------------------------
(* generate_prompt_assessment, utilities.py 9-50 *)

AllowedLevels == {<<"l", "o", "w">>,
                  <<"m", "e", "d", "i", "u", "m">>,
                  <<"h", "i", "g", "h">>}

\* the condition of line 35, negated there
CardFieldsPresent(keywords, tools, level, no_of_questions) ==
    /\ keywords.some /\ Len(keywords.v) > 0
    /\ tools.some
    /\ level.some /\ Len(level.v) > 0
    /\ no_of_questions.some /\ no_of_questions.v # 0

\* variant of ToolsStr: the suffix is appended whether or not tools is empty
ToolsStr_always(tools) == " using " \o Join(tools, ", ")

\* line 44
ToolsStr(tools) == IF Len(tools) > 0 THEN " using " \o Join(tools, ", ") ELSE ""

\* line 46
RenderPrompt(role, keywords, tools, level, no_of_questions) ==
    "I want " \o IntToStr(no_of_questions) \o " assessment questions of "
        \o Text(level) \o " complexity for " \o role \o " on "
        \o Join(keywords, ", ") \o ToolsStr(tools) \o "."

\* noOfQuestions is an int (routes.py 17), so int(no_of_questions) is its value
generate_prompt_assessment(data) ==
    IF ~({"role", "card"} \subseteq DOMAIN data)
    THEN Raise("ValueError", "Missing required assessment data")
    ELSE
      LET role == data["role"]
          card == data["card"]
          keywords == Get(card, "keywords", None)
          tools == Get(card, "tools", Some(<<>>))
          level == Get(card, "level", None)
          no_of_questions == Get(card, "noOfQuestions", None)
      IN  IF ~CardFieldsPresent(keywords, tools, level, no_of_questions)
          THEN Raise("ValueError", "Missing required fields in one of the cards")
          ELSE IF no_of_questions.v < 1
          THEN Raise("ValueError", "Number of questions must be greater than 1")
          ELSE IF Lower(level.v) \notin AllowedLevels
          THEN Raise("ValueError", "Level must be 'low', 'medium', or 'high'")
          ELSE Return(RenderPrompt(role, keywords.v, tools.v, level.v,
                                   no_of_questions.v))

----------------------------------------------------------------------------
(* Inputs of generate_prompt_assessment *)

Roles == {"Backend Engineer", "Data Analyst"}
KeywordPool == {"APIs", "SQL"}
ToolPool == {"X", "Y"}
Levels == {<<"l", "o", "w">>, <<"M", "e", "d", "i", "u", "m">>,
           <<"h", "i", "g", "h">>, <<"H", "I", "G", "H">>,
           <<"e", "x", "t", "r", "e", "m", "e">>, <<>>}
Counts == (0 - 1)..MaxQuestions
CardKeys == {"keywords", "tools", "level", "noOfQuestions"}

FullCards == [keywords : BoundedSeq(KeywordPool, MaxKeywords),
              tools : BoundedSeq(ToolPool, MaxTools),
              level : Levels,
              noOfQuestions : Counts]

Cards == {Restrict(c, K) : c \in FullCards, K \in SUBSET CardKeys}

FullData == [role : Roles, card : Cards]

AssessmentData == {Restrict(d, K) : d \in FullData, K \in SUBSET {"role", "card"}}

GeneratePromptAssessment ==
    /\ prompt_result = NotCalled
    /\ prompt_result' = generate_prompt_assessment(assessment_data)
    /\ UNCHANGED <<assessment_data, client_vars, route_vars>>


----------------------------------------------------------------------------
(* get_result, utilities.py 52-128 *)

Invocations == 1..NumInvocations

\* main/config.py: opaque values
API_KEY == "API_KEY"
GENERATION_CONFIG == [name |-> "GENERATION_CONFIG"]
SAFETY_SETTINGS == [name |-> "SAFETY_SETTINGS"]

\* lines 67-70
Preamble ==
    "I am creating an assessment with the following specifications. "
      \o "Low complexity should be Blooms level 1 and 2 that test recall and comprehension. "
      \o "Medium complexity should be Blooms level 3 of type application. "
      \o "High complexity should be Blooms level 4 of type analysis, preferably scenario-based. "

\* lines 67-71
FinalPrompt(p) == Preamble \o "\n" \o p

\* lines 75-101
example_format ==
    "MCQ strictly has to be in below format:\n"
      \o "Format:\n **Question 1 question**\n"
      \o "A. Option 1\n"
      \o "B. Option 2\n"
      \o "C. Option 3\n"
      \o "D. Option 4\n"
      \o "\n**Answer: Option no. Answer**\n"
      \o "MCQ Format Example:\n"
      \o "**Question 10**\n"
      \o "What is the purpose of the following code?\n"
      \o "```c\n"
      \o "int arr[] = {1, 2, 3, 4, 5};\n"
      \o "int sum, product;\n"
      \o "sum = product = 1;\n"
      \o "for (int i = 0; i < 5; i++) {\n"
      \o "  sum += arr[i];\n"
      \o "  product *= arr[i];\n"
      \o "}\n"
      \o "```\n"
      \o "A. To calculate the sum and product of all elements in the array\n"
      \o "B. To calculate the average and standard deviation of all elements in the array\n"
      \o "C. To reverse the order of elements in the array\n"
      \o "D. To sort the elements in the array\n"
      \o "\n**Answer: A. To calculate the sum and product of all elements in the array**\n"
      \o "No need to separate questions topic-wise and mention the topic and Write complete answer don't change the example format, all MCQ questions should be in given format"

\* line 104
apiUrl ==
    "https://generativelanguage.googleapis.com/v1beta/models/gemini-pro:generateContent?key="
      \o API_KEY

\* lines 108-112
RequestBody(p) ==
    [contents |-> <<[parts |-> <<[text |-> p \o example_format]>>]>>,
     generationConfig |-> GENERATION_CONFIG,
     safetySettings |-> SAFETY_SETTINGS]

\* line 114
headers == [ContentType |-> "application/json"]

\* httpx: the exceptions that are RequestError; HTTPStatusError is not one
RequestErrors == {"ConnectError", "ConnectTimeout", "ReadTimeout"}

\* Response.raise_for_status, line 119
RaiseForStatus(response) ==
    IF response.status \in 200..299 THEN NotCalled
    ELSE Raise("HTTPStatusError", "Server error for url " \o apiUrl)

\* variant of Extract: reads the last part instead of parts[0]
Extract_last_part(response) ==
    IF ~response.is_json
    THEN Raise("JSONDecodeError", "Expecting value: line 1 column 1 (char 0)")
    ELSE
      LET candidates == Get(response.json, "candidates", None) IN
      IF ~candidates.some
      THEN Raise("TypeError", "'NoneType' object is not subscriptable")
      ELSE IF Len(candidates.v) = 0
      THEN Raise("IndexError", "list index out of range")
      ELSE
        LET content == Get(candidates.v[1], "content", None) IN
        IF ~content.some
        THEN Raise("AttributeError", "'NoneType' object has no attribute 'get'")
        ELSE
          LET parts == Get(content.v, "parts", None) IN
          IF ~parts.some
          THEN Raise("TypeError", "'NoneType' object is not subscriptable")
          ELSE IF Len(parts.v) = 0
          THEN Raise("IndexError", "list index out of range")
          ELSE Return(Get(parts.v[Len(parts.v)], "text", None))

\* line 121: response.json().get("candidates")[0].get("content").get("parts")[0].get("text")
Extract(response) ==
    IF ~response.is_json
    THEN Raise("JSONDecodeError", "Expecting value: line 1 column 1 (char 0)")
    ELSE
      LET candidates == Get(response.json, "candidates", None) IN
      IF ~candidates.some
      THEN Raise("TypeError", "'NoneType' object is not subscriptable")
      ELSE IF Len(candidates.v) = 0
      THEN Raise("IndexError", "list index out of range")
      ELSE
        LET content == Get(candidates.v[1], "content", None) IN
        IF ~content.some
        THEN Raise("AttributeError", "'NoneType' object has no attribute 'get'")
        ELSE
          LET parts == Get(content.v, "parts", None) IN
          IF ~parts.some
          THEN Raise("TypeError", "'NoneType' object is not subscriptable")
          ELSE IF Len(parts.v) = 0
          THEN Raise("IndexError", "list index out of range")
          ELSE Return(Get(parts.v[1], "text", None))

\* lines 126-128: the except clause, applied to an exception raised in the try block
ExceptRequestError(exc) ==
    IF exc.type \in RequestErrors
    THEN Raise("Exception", "Error in getting response from Gemini API")
    ELSE exc

(* What the provider may answer *)

Prompts == {"I want 2 assessment questions of low complexity for Backend Engineer on APIs.",
            "I want 1 assessment questions of HIGH complexity for Data Analyst on SQL using X, Y."}

EmptyDict == [k \in {} |-> None]
Dict(key, value) == [k \in {key} |-> value]

Text1 == "**Question 1**..."
Text2 == "**Question 2**..."

WithParts(parts) == Dict("candidates", <<Dict("content", Dict("parts", parts))>>)

JsonBodies ==
    { EmptyDict,
      Dict("candidates", <<>>),
      Dict("candidates", <<EmptyDict>>),
      Dict("candidates", <<Dict("content", EmptyDict)>>),
      WithParts(<<>>),
      WithParts(<<EmptyDict>>),
      WithParts(<<Dict("text", Text1)>>),
      WithParts(<<Dict("text", "")>>),
      Dict("candidates", <<Dict("content", Dict("parts", <<Dict("text", Text1), Dict("text", Text2)>>)),
                           Dict("content", Dict("parts", <<Dict("text", Text2)>>))>>) }

Responses ==
    {[kind |-> "response", status |-> 200, is_json |-> TRUE, json |-> b] : b \in JsonBodies}
      \cup {[kind |-> "response", status |-> 200, is_json |-> FALSE, json |-> EmptyDict],
            [kind |-> "response", status |-> 503, is_json |-> FALSE, json |-> EmptyDict]}

TransportFailures ==
    {[kind |-> "transport", type |-> t] : t \in {"ConnectError", "ReadTimeout"}}

Replies == Responses \cup TransportFailures

NoReply == [kind |-> "none"]

(* The steps of one invocation; it is suspended between them *)

\* lines 67-114
Call(i, p) ==
    /\ pc[i] = "idle"
    /\ prompt' = [prompt EXCEPT ![i] = p]
    /\ final_prompt' = [final_prompt EXCEPT ![i] = FinalPrompt(p)]
    /\ request_body' = [request_body EXCEPT ![i] = Some(RequestBody(p))]
    /\ pc' = [pc EXCEPT ![i] = "enter"]
    /\ UNCHANGED <<client, clients, posts, reply, pending, result>>
    /\ UNCHANGED <<prompt_vars, route_vars>>

\* line 117: httpx.AsyncClient(timeout=1000.0) constructs a new object on every
\* evaluation; the one invocation i constructs is identified by i
NewClient(i) == i

\* line 117: async with httpx.AsyncClient(...) as client
EnterClient(i) ==
    /\ pc[i] = "enter"
    /\ clients' = clients @@ (NewClient(i) :> [owner |-> i, open |-> TRUE])
    /\ client' = [client EXCEPT ![i] = NewClient(i)]
    /\ pc' = [pc EXCEPT ![i] = "post"]
    /\ UNCHANGED <<prompt, final_prompt, request_body, posts, reply, pending, result>>
    /\ UNCHANGED <<prompt_vars, route_vars>>

\* line 118: client.post(...) is issued
Post(i) ==
    /\ pc[i] = "post"
    /\ posts' = [posts EXCEPT ![i] =
                    Append(@, [url |-> apiUrl, data |-> request_body[i].v,
                               headers |-> headers, client |-> client[i]])]
    /\ pc' = [pc EXCEPT ![i] = "await"]
    /\ UNCHANGED <<prompt, final_prompt, request_body, client, clients, reply, pending, result>>
    /\ UNCHANGED <<prompt_vars, route_vars>>

\* lines 118-119: the await ends, with a response or an exception
Receive(i, r) ==
    /\ pc[i] = "await"
    /\ reply' = [reply EXCEPT ![i] = r]
    /\ pending' = [pending EXCEPT ![i] =
                      IF r.kind = "transport" THEN Raise(r.type, "")
                      ELSE RaiseForStatus(r)]
    /\ pc' = [pc EXCEPT ![i] = "exit"]
    /\ UNCHANGED <<prompt, final_prompt, request_body, client, clients, posts, result>>
    /\ UNCHANGED <<prompt_vars, route_vars>>

\* variant of ExitClient: the client is closed only when no exception is in flight
ExitClient_leak(i) ==
    /\ pc[i] = "exit"
    /\ clients' = IF pending[i].kind = "raise" THEN clients
                  ELSE [clients EXCEPT ![client[i]].open = FALSE]
    /\ pc' = [pc EXCEPT ![i] = "after"]
    /\ UNCHANGED <<prompt, final_prompt, request_body, client, posts, reply, pending, result>>
    /\ UNCHANGED <<prompt_vars, route_vars>>

\* line 117: leaving the async with block, normally or by an exception
ExitClient(i) ==
    /\ pc[i] = "exit"
    /\ clients' = [clients EXCEPT ![client[i]].open = FALSE]
    /\ pc' = [pc EXCEPT ![i] = "after"]
    /\ UNCHANGED <<prompt, final_prompt, request_body, client, posts, reply, pending, result>>
    /\ UNCHANGED <<prompt_vars, route_vars>>

\* variant of Finish: a failed status sends the invocation back to post once more
Finish_retry(i) ==
    /\ pc[i] = "after"
    /\ IF pending[i].kind = "raise" /\ pending[i].type = "HTTPStatusError"
          /\ Len(posts[i]) < 2
       THEN /\ pc' = [pc EXCEPT ![i] = "post"]
            /\ UNCHANGED result
       ELSE /\ result' = [result EXCEPT ![i] =
                     IF pending[i].kind = "raise" THEN ExceptRequestError(pending[i])
                     ELSE LET answer == Extract(reply[i]) IN
                          IF answer.kind = "raise" THEN ExceptRequestError(answer)
                          ELSE answer]
            /\ pc' = [pc EXCEPT ![i] = "done"]
    /\ UNCHANGED <<prompt, final_prompt, request_body, client, clients, posts, reply, pending>>
    /\ UNCHANGED <<prompt_vars, route_vars>>

\* lines 121-128
Finish(i) ==
    /\ pc[i] = "after"
    /\ result' = [result EXCEPT ![i] =
                     IF pending[i].kind = "raise" THEN ExceptRequestError(pending[i])
                     ELSE LET answer == Extract(reply[i]) IN
                          IF answer.kind = "raise" THEN ExceptRequestError(answer)
                          ELSE answer]
    /\ pc' = [pc EXCEPT ![i] = "done"]
    /\ UNCHANGED <<prompt, final_prompt, request_body, client, clients, posts, reply, pending>>
    /\ UNCHANGED <<prompt_vars, route_vars>>

ClientIdle ==
    /\ pc = [i \in Invocations |-> "idle"]
    /\ prompt = [i \in Invocations |-> ""]
    /\ final_prompt = [i \in Invocations |-> ""]
    /\ request_body = [i \in Invocations |-> None]
    /\ client = [i \in Invocations |-> 0]
    /\ clients = <<>>
    /\ posts = [i \in Invocations |-> <<>>]
    /\ reply = [i \in Invocations |-> NoReply]
    /\ pending = [i \in Invocations |-> NotCalled]
    /\ result = [i \in Invocations |-> NotCalled]

PromptIdle ==
    /\ assessment_data = EmptyDict
    /\ prompt_result = NotCalled

RouteIdle ==
    /\ request = EmptyDict
    /\ route_pc = "idle"
    /\ call_argument = EmptyDict
    /\ call_outcome = NotCalled
    /\ http_response = NotCalled

----------------------------------------------------------------------------
(* generate_assessment_endpoint, routes.py 33-55 *)

\* routes.py 13-21: the request bodies pydantic lets through
RouteCards ==
    {[keywords |-> <<"APIs">>, tools |-> <<>>, level |-> <<"l", "o", "w">>,
      noOfQuestions |-> 2],
     [keywords |-> <<"SQL", "APIs">>, tools |-> <<"X", "Y">>,
      level |-> <<"H", "I", "G", "H">>, noOfQuestions |-> 1]}

Requests == [role : Roles, cards : BoundedSeq(RouteCards, MaxCards)]

\* main/services.py generate_assessment: the ways the awaited call may end
GenerateOutcomes ==
    {Return(Some(Text1)), Return(Some("")), Return(None)}
      \cup {Raise("KeyError", k) : k \in {"card", "role"}}
      \cup {Raise("ValueError", m) :
              m \in {"Missing required assessment data",
                     "Missing required fields in one of the cards",
                     "Number of questions must be greater than 1",
                     "Level must be 'low', 'medium', or 'high'"}}
      \cup {Raise("Exception", "Error in getting response from Gemini API"),
            Raise("HTTPStatusError", "Server error for url " \o apiUrl),
            Raise("TypeError", "'NoneType' object is not subscriptable"),
            Raise("IndexError", "list index out of range"),
            Raise("AttributeError", "'NoneType' object has no attribute 'get'")}

\* str(e): a KeyError renders the repr of its key, any other exception its message
StrException(e) ==
    IF e.type = "KeyError" THEN "'" \o e.message \o "'" ELSE e.message

HTTPException(status_code, detail) ==
    [status_code |-> status_code, body |-> [detail |-> detail]]

\* variant of HandleOutcome: the except Exception clause comes first
HandleOutcome_generic_first(o) ==
    IF o.kind = "return"
    THEN [status_code |-> 200, body |-> [assessment |-> o.value]]
    ELSE HTTPException(500, "An error occurred: " \o StrException(o))

\* lines 48-55: the return statement and the two except clauses, in order
HandleOutcome(o) ==
    IF o.kind = "return"
    THEN [status_code |-> 200, body |-> [assessment |-> o.value]]
    ELSE IF o.type = "KeyError"
    THEN HTTPException(400, "Missing key in input data: " \o StrException(o))
    ELSE HTTPException(500, "An error occurred: " \o StrException(o))

\* lines 46-47: request.dict() and the call of generate_assessment
CallGenerateAssessment ==
    /\ route_pc = "start"
    /\ call_argument' = [role |-> request.role, cards |-> request.cards]
    /\ route_pc' = "await"
    /\ UNCHANGED <<request, call_outcome, http_response>>
    /\ UNCHANGED <<prompt_vars, client_vars>>

\* line 47: the await ends
GenerateAssessmentEnds(o) ==
    /\ route_pc = "await"
    /\ call_outcome' = o
    /\ route_pc' = "resume"
    /\ UNCHANGED <<request, call_argument, http_response>>
    /\ UNCHANGED <<prompt_vars, client_vars>>

\* lines 48-55
Respond ==
    /\ route_pc = "resume"
    /\ http_response' = HandleOutcome(call_outcome)
    /\ route_pc' = "responded"
    /\ UNCHANGED <<request, call_argument, call_outcome>>
    /\ UNCHANGED <<prompt_vars, client_vars>>

----------------------------------------------------------------------------
(* Specifications *)

\* generate_prompt_assessment applied to every input
PromptInit ==
    /\ assessment_data \in AssessmentData
    /\ prompt_result = NotCalled
    /\ ClientIdle
    /\ RouteIdle

PromptNext == GeneratePromptAssessment

PromptSpec == PromptInit /\ [][PromptNext]_vars

\* concurrent invocations of get_result
Init == PromptIdle /\ ClientIdle /\ RouteIdle

Next ==
    \/ \E i \in Invocations, p \in Prompts : Call(i, p)
    \/ \E i \in Invocations : EnterClient(i)
    \/ \E i \in Invocations : Post(i)
    \/ \E i \in Invocations, r \in Replies : Receive(i, r)
    \/ \E i \in Invocations : ExitClient(i)
    \/ \E i \in Invocations : Finish(i)

Spec == Init /\ [][Next]_vars

\* one request to POST /api/v2/generate_assessment
RouteInit ==
    /\ PromptIdle
    /\ ClientIdle
    /\ request \in Requests
    /\ route_pc = "start"
    /\ call_argument = EmptyDict
    /\ call_outcome = NotCalled
    /\ http_response = NotCalled

RouteNext ==
    \/ CallGenerateAssessment
    \/ \E o \in GenerateOutcomes : GenerateAssessmentEnds(o)
    \/ Respond

RouteSpec == RouteInit /\ [][RouteNext]_vars


----------------------------------------------------------------------------
(* Properties of generate_prompt_assessment, under PromptSpec *)

PromptCalled == prompt_result # NotCalled

HasRoleAndCard == {"role", "card"} \subseteq DOMAIN assessment_data

C1_ValidInput ==
    /\ HasRoleAndCard
    /\ LET card == assessment_data["card"] IN
       /\ CardKeys \subseteq DOMAIN card
       /\ Len(card["keywords"]) >= 1
       /\ card["noOfQuestions"] >= 1
       /\ Lower(card["level"]) \in AllowedLevels

C1_Expected ==
    LET card == assessment_data["card"]
        suffix == IF card["tools"] = <<>> THEN ""
                  ELSE " using " \o Join(card["tools"], ", ")
    IN  "I want " \o IntToStr(card["noOfQuestions"]) \o " assessment questions of "
          \o Text(card["level"]) \o " complexity for " \o assessment_data["role"]
          \o " on " \o Join(card["keywords"], ", ") \o suffix \o "."

C1_ExampleNoTools ==
    [role |-> "Backend Engineer",
     card |-> [keywords |-> <<"APIs">>, tools |-> <<>>, level |-> <<"l", "o", "w">>,
               noOfQuestions |-> 2]]

C1_ExampleTools ==
    [role |-> "Data Analyst",
     card |-> [keywords |-> <<"SQL", "APIs">>, tools |-> <<"X", "Y">>,
               level |-> <<"H", "I", "G", "H">>, noOfQuestions |-> 1]]

\* C1: for every input with role and card present, keywords non-empty, tools
\* present (possibly empty), noOfQuestions an integer >= 1 and level low, medium
\* or high in any letter case, generate_prompt_assessment returns exactly
\* "I want {n} assessment questions of {level} complexity for {role} on
\* {keywords joined by ', '}{suffix}.", the level as given, the suffix
\* " using {tools joined by ', '}" when tools is non-empty and empty otherwise.
C1_PromptForValidInput ==
    /\ (PromptCalled /\ C1_ValidInput) => prompt_result = Return(C1_Expected)
    /\ (PromptCalled /\ assessment_data = C1_ExampleNoTools) =>
          prompt_result = Return(
            "I want 2 assessment questions of low complexity for Backend Engineer on APIs.")
    /\ (PromptCalled /\ assessment_data = C1_ExampleTools) =>
          prompt_result = Return(
            "I want 1 assessment questions of HIGH complexity for Data Analyst on SQL, APIs using X, Y.")

\* a valid input with an upper-case level, the count 1 and two tools has been rendered
C1_Witness ==
    /\ PromptCalled
    /\ assessment_data = C1_ExampleTools
    /\ prompt_result.kind = "return"

\* C2: every card in which keywords, level or noOfQuestions is missing, or in
\* which the tools key is absent, is rejected with a validation error and no
\* prompt is returned; a card whose tools key is present with an empty sequence
\* is not rejected for that reason.
C2_MissingFieldRejected ==
    /\ (PromptCalled /\ HasRoleAndCard
          /\ ~(CardKeys \subseteq DOMAIN assessment_data["card"])) =>
          (prompt_result.kind = "raise" /\ prompt_result.type = "ValueError")
    /\ (PromptCalled /\ C1_ValidInput /\ assessment_data["card"]["tools"] = <<>>) =>
          prompt_result.kind = "return"

C3_Expected ==
    IF ~HasRoleAndCard THEN "Missing required assessment data"
    ELSE LET card == assessment_data["card"] IN
         IF \/ ~(CardKeys \subseteq DOMAIN card)
            \/ card["keywords"] = <<>>
            \/ card["level"] = <<>>
         THEN "Missing required fields in one of the cards"
         ELSE IF card["noOfQuestions"] < 1
         THEN "Number of questions must be greater than 1"
         ELSE IF Lower(card["level"]) \notin AllowedLevels
         THEN "Level must be 'low', 'medium', or 'high'"
         ELSE ""

\* C3: the four checks are applied in a fixed order and the first that fails is
\* reported: (1) role or card absent, (2) a card field absent or empty, (3) a
\* noOfQuestions that is not an integer >= 1, such as 0 or a negative number,
\* gives the number-of-questions error, (4) a level that lower-cased is not low,
\* medium or high; noOfQuestions = 1 and level "HIGH" pass (3) and (4).  Stated
\* for the cards that carry the tools key (its absence is the subject of C2).
C3_FirstFailingCheckReported ==
    (PromptCalled /\ (HasRoleAndCard => "tools" \in DOMAIN assessment_data["card"])) =>
        IF C3_Expected = "" THEN prompt_result.kind = "return"
        ELSE prompt_result = Raise("ValueError", C3_Expected)

----------------------------------------------------------------------------
(* Properties of get_result, under Spec *)

IsTransportFailure(r) == r.kind = "transport"
IsFailedStatus(r) == r.kind = "response" /\ ~(r.status \in 200..299)
IsSuccess(r) == r.kind = "response" /\ r.status \in 200..299

\* the body has candidates[0].content.parts[0]
HasFirstPart(r) ==
    /\ r.is_json
    /\ "candidates" \in DOMAIN r.json
    /\ Len(r.json["candidates"]) >= 1
    /\ "content" \in DOMAIN r.json["candidates"][1]
    /\ "parts" \in DOMAIN r.json["candidates"][1]["content"]
    /\ Len(r.json["candidates"][1]["content"]["parts"]) >= 1

FirstPart(r) == r.json["candidates"][1]["content"]["parts"][1]

\* the body has a text at candidates[0].content.parts[0].text
HasTextPath(r) == HasFirstPart(r) /\ "text" \in DOMAIN FirstPart(r)

\* C4: the single text part of every request body sent is the fixed preamble,
\* followed by the rendered prompt, followed by the fixed output-format
\* template, and the body carries generationConfig and safetySettings unmodified.
C4_BodyIsPreamblePromptTemplate ==
    \A i \in Invocations : \A k \in 1..Len(posts[i]) :
        LET body == posts[i][k].data IN
        /\ Len(body.contents) = 1
        /\ Len(body.contents[1].parts) = 1
        /\ body.contents[1].parts[1].text = final_prompt[i] \o example_format
        /\ final_prompt[i] = Preamble \o "\n" \o prompt[i]
        /\ body.generationConfig = GENERATION_CONFIG
        /\ body.safetySettings = SAFETY_SETTINGS

\* C5: every provider failure, a transport-level failure or a non-success HTTP
\* status, is surfaced to the caller as the same generic failure, "Error in
\* getting response from Gemini API", and no string is returned.
C5_ProviderFailureIsGeneric ==
    \A i \in Invocations :
        (pc[i] = "done" /\ (IsTransportFailure(reply[i]) \/ IsFailedStatus(reply[i]))) =>
            result[i] = Raise("Exception", "Error in getting response from Gemini API")

\* C6: every invocation issues exactly one POST on every path: none before the
\* request is sent, one from then on, and after a non-success status, a
\* transport failure or a body without candidates[0].content.parts[0] no second
\* request is sent and the invocation ends in failure.
C6_ExactlyOnePost ==
    \A i \in Invocations :
        /\ Len(posts[i]) <= 1
        /\ pc[i] \in {"idle", "enter", "post"} => Len(posts[i]) = 0
        /\ pc[i] \in {"await", "exit", "after", "done"} => Len(posts[i]) = 1
        /\ (pc[i] = "done" /\ (\/ IsTransportFailure(reply[i])
                               \/ IsFailedStatus(reply[i])
                               \/ (IsSuccess(reply[i]) /\ ~HasFirstPart(reply[i])))) =>
              result[i].kind = "raise"

\* an invocation has ended after a 503, another after a transport failure
C6_Witness ==
    \E i, j \in Invocations :
        /\ pc[i] = "done" /\ IsFailedStatus(reply[i]) /\ Len(posts[i]) = 1
        /\ pc[j] = "done" /\ IsTransportFailure(reply[j]) /\ Len(posts[j]) = 1

\* C7: when the provider answers with a success status and a body that has a
\* text at candidates[0].content.parts[0].text, get_result returns exactly that
\* text.
C7_ReturnsTextUnmodified ==
    \A i \in Invocations :
        (pc[i] = "done" /\ IsSuccess(reply[i]) /\ HasTextPath(reply[i])) =>
            result[i] = Return(Some(FirstPart(reply[i])["text"]))

\* an invocation has returned the text of a body with several candidates and parts
C7_Witness ==
    \E i \in Invocations :
        /\ pc[i] = "done"
        /\ IsSuccess(reply[i]) /\ HasTextPath(reply[i])
        /\ Len(reply[i].json["candidates"]) = 2
        /\ result[i] = Return(Some(Text1))

\* C8: when the provider answers with a success status but the body lacks any
\* element of the path candidates[0].content.parts[0].text, get_result ends in
\* a failure and returns no value.
C8_MissingPathFails ==
    \A i \in Invocations :
        (pc[i] = "done" /\ IsSuccess(reply[i]) /\ reply[i].is_json
           /\ ~HasTextPath(reply[i])) =>
            result[i].kind = "raise"

\* C10: the client get_result opens belongs to that one invocation and is closed
\* on every exit path: once an invocation has returned or failed its client is
\* closed, a client is open only while its owner is inside the async with block,
\* no two invocations hold the same client and every POST goes through the
\* client of the invocation that issues it.
C10_ClientScopedAndClosed ==
    /\ \A i \in Invocations :
          pc[i] \in {"after", "done"} =>
              client[i] \in DOMAIN clients /\ ~clients[client[i]].open
    /\ \A c \in DOMAIN clients :
          /\ client[clients[c].owner] = c
          /\ clients[c].open => pc[clients[c].owner] \in {"post", "await", "exit"}
    /\ \A i, j \in Invocations :
          (i # j /\ client[i] # 0) => client[i] # client[j]
    /\ \A i \in Invocations : \A k \in 1..Len(posts[i]) :
          posts[i][k].client = client[i] /\ clients[posts[i][k].client].owner = i

\* one invocation has failed and its client is closed while another waits for
\* the provider with its own client open
C10_Witness ==
    \E i, j \in Invocations :
        /\ pc[i] = "done" /\ result[i].kind = "raise" /\ ~clients[client[i]].open
        /\ pc[j] = "await" /\ clients[client[j]].open

----------------------------------------------------------------------------
(* Properties of generate_assessment_endpoint, under RouteSpec *)

\* C9: every outcome of the generation call is mapped to exactly one response:
\* a returned text gives 200 with {"assessment": text}; a KeyError gives 400
\* with detail "Missing key in input data: <key>", the key as str(KeyError)
\* renders it; every other failure gives 500 with detail
\* "An error occurred: <message>".
C9_OutcomeToResponse ==
    route_pc = "responded" =>
        /\ call_outcome.kind = "return" =>
              http_response = [status_code |-> 200,
                               body |-> [assessment |-> call_outcome.value]]
        /\ (call_outcome.kind = "raise" /\ call_outcome.type = "KeyError") =>
              http_response = [status_code |-> 400,
                               body |-> [detail |-> "Missing key in input data: '"
                                                      \o call_outcome.message \o "'"]]
        /\ (call_outcome.kind = "raise" /\ call_outcome.type # "KeyError") =>
              http_response = [status_code |-> 500,
                               body |-> [detail |-> "An error occurred: "
                                                      \o call_outcome.message]]

\* a missing key has been answered with 400
C9_Witness ==
    /\ route_pc = "responded"
    /\ call_outcome = Raise("KeyError", "card")
    /\ http_response.status_code = 400
    /\ http_response.body.detail = "Missing key in input data: 'card'"

====
